---- MODULE Spec2Model ----
(***************************************************************************)
(* Model of the wordle terminal game (src/src/main.rs).                    *)
(*                                                                         *)
(* A string is a sequence of characters; a character is a one-element      *)
(* token: printable ASCII characters stand for themselves, the others are  *)
(* named ("LF", "CR", "U+00E9", ...).  String::len() counts UTF-8 bytes,   *)
(* chars() iterates characters, so both measures are kept apart.           *)
(***************************************************************************)
EXTENDS Integers, Sequences, FiniteSets, TLC

VARIABLES
    content,      \* result of fs::read_to_string: a string, or ReadError
    words,        \* the catalog, Vec<String>
    chosen,       \* State.chosen: None or the secret
    attempts,     \* State.attempts
    max_attempts, \* State.max_attempts
    pc,           \* position of the (single) thread of control
    attempt_no,   \* parameter of the running input_guess call
    input,        \* line last read by read_line in the running prompt loop
    info,         \* INFO message printed by the last input_guess iteration
    guess,        \* main's local `guess`
    ret,          \* what the last evaluate_guess call returned: Some or None
    matches,      \* main's local `matches`
    match_count,  \* main's local `match_count`
    outcome,      \* "WON" / "LOST" once printed for the current round
    revealed,     \* the word printed after "You LOST!"
    prev_chosen,  \* history: the secret of the round that ended last
    scored        \* history: evaluate_guess calls that returned Some since
                  \* the secret was assigned

vars == <<content, words, chosen, attempts, max_attempts, pc, attempt_no,
          input, info, guess, ret, matches, match_count, outcome, revealed,
          prev_chosen, scored>>

-----------------------------------------------------------------------------
(* Bounds of the model *)

\* letters of the alphabet used to enumerate the 5-letter guesses
NumLetters == 2

-----------------------------------------------------------------------------
(* Characters *)

UPPER == <<"A", "B", "C", "D", "E", "F", "G", "H", "I", "J", "K", "L", "M",
           "N", "O", "P", "Q", "R", "S", "T", "U", "V", "W", "X", "Y", "Z">>
LOWER == <<"a", "b", "c", "d", "e", "f", "g", "h", "i", "j", "k", "l", "m",
           "n", "o", "p", "q", "r", "s", "t", "u", "v", "w", "x", "y", "z">>

Range(s) == {s[i] : i \in DOMAIN s}

\* non-ASCII letters that occur in the inputs: e-acute (small, capital) and
\* the German sharp s; each takes two bytes in UTF-8
NonAsciiLetters == {"U+00E9", "U+00C9", "U+00DF"}

\* char::is_alphabetic
is_alphabetic(c) == c \in Range(UPPER) \cup Range(LOWER) \cup NonAsciiLetters

\* char::is_whitespace (the White_Space characters among the inputs)
is_whitespace(c) == c \in {" ", "LF", "CR", "TAB"}

\* char::len_utf8
len_utf8(c) == IF c \in NonAsciiLetters THEN 2 ELSE 1

\* char::to_uppercase: the uppercase mapping of one character, which may be
\* more than one character long
char_to_uppercase(c) ==
    IF c \in Range(LOWER)
      THEN <<UPPER[CHOOSE i \in DOMAIN LOWER : LOWER[i] = c]>>
    ELSE IF c = "U+00E9" THEN <<"U+00C9">>
    ELSE IF c = "U+00DF" THEN <<"S", "S">>
    ELSE <<c>>

-----------------------------------------------------------------------------
(* Strings *)

RECURSIVE len(_)
\* str::len: length in bytes
len(s) == IF s = <<>> THEN 0 ELSE len_utf8(Head(s)) + len(Tail(s))

\* s.chars().all(char::is_alphabetic)
all_alphabetic(s) == \A i \in DOMAIN s : is_alphabetic(s[i])

RECURSIVE to_uppercase(_)
\* str::to_uppercase
to_uppercase(s) ==
    IF s = <<>> THEN <<>> ELSE char_to_uppercase(Head(s)) \o to_uppercase(Tail(s))

RECURSIVE trim_start(_)
trim_start(s) ==
    IF s # <<>> /\ is_whitespace(Head(s)) THEN trim_start(Tail(s)) ELSE s

RECURSIVE trim_end(_)
trim_end(s) ==
    IF s # <<>> /\ is_whitespace(s[Len(s)])
      THEN trim_end(SubSeq(s, 1, Len(s) - 1)) ELSE s

\* str::trim
trim(s) == trim_end(trim_start(s))

\* str::contains(char)
contains(s, c) == \E i \in DOMAIN s : s[i] = c

RECURSIVE split(_, _)
\* str::split("\n"): the pieces between line feeds, `cur` being the piece
\* collected so far; a trailing line feed yields a last empty piece
split(s, cur) ==
    IF s = <<>> THEN <<cur>>
    ELSE IF Head(s) = "LF" THEN <<cur>> \o split(Tail(s), <<>>)
    ELSE split(Tail(s), Append(cur, Head(s)))

\* the filter of load_words
load_filter(w) == len(w) = 5 /\ all_alphabetic(w)

\* load_words: split, filter, map to_uppercase, collect
load_words(text) ==
    LET kept == SelectSeq(split(text, <<>>), load_filter)
    IN [i \in DOMAIN kept |-> to_uppercase(kept[i])]

-----------------------------------------------------------------------------
(* Values and inputs *)

\* absent values are one-token sequences, so that they compare with strings
None == <<"None">>
ReadError == <<"ReadError">>
NoLine == <<"NoLine">>
NoMatches == <<"NoMatches">>

FULL == "FULL"
HALF == "HALF"
NONE == "NONE"

\* let max_attempts = 6
MaxAttempts == 6

Letters == {UPPER[i] : i \in 1..NumLetters}

\* the 5-letter words over Letters
Words5 == [1..5 -> Letters]

\* the words of the examples
ExampleWords == { <<"A","B","C","D","E">>, <<"A","A","B","C","D">>,
                  <<"E","D","C","B","A">> }

LF(w) == w \o <<"LF">>

\* word-list texts read from the file
Contents ==
    { LF(<<"A","B","A","B","A">>) \o LF(<<"B","B","A","A","B">>),
      LF(<<"A","B","C","D","E">>),
      <<>>,
      LF(<<"A","B">>) \o LF(<<"1","2","3","4","5">>),
      LF(<<"a","b","a","a","b">>) \o LF(<<"A","B","A","A","B">>)
          \o <<"B","B","B","B","B">>,
      LF(<<"U+00E9","a","b","a">>) \o LF(<<"A","A","A","A","A">>) }

\* lines other than a plain 5-letter word that the player types; the empty
\* string is what read_line leaves in the buffer at end of input
OddLines ==
    { <<>>,
      <<"LF">>,
      LF(<<"A","B">>),
      LF(<<"1">>),
      LF(<<"A","1","B","A","B">>),
      LF(<<"A","B"," ","A","B">>),
      LF(<<"A","B","A","B","A","B">>),
      <<" ","a","b","a","a","b"," ","CR","LF">>,
      LF(<<"U+00E9","a","b","a">>),
      LF(<<"U+00E9","a","b","a","b">>),
      LF(<<"U+00DF","a","b","a">>) }

GuessLines == {LF(w) : w \in Words5 \cup ExampleWords} \cup OddLines

\* answers typed at the play-again prompt
AnswerLines ==
    { LF(<<"y">>), LF(<<"N">>), LF(<<"n">>), LF(<<"Y">>),
      LF(<<"y","e","s">>), <<" ","y"," ","CR","LF">>, <<"N">>,
      LF(<<" ","y">>), LF(<<"N"," ">>),
      <<"LF">>, <<>> }

-----------------------------------------------------------------------------
(* The functions of the program *)

\* random_word: the values words.choose may return
random_word(ws) == IF ws = <<>> THEN {None} ELSE Range(ws)

Min(a, b) == IF a < b THEN a ELSE b

\* eval_step with the two tests in the wrong order: containment first
eval_step_half_first(acc, i, guess_ch, chosen_ch, secret) ==
    IF contains(secret, guess_ch)
      THEN [matches |-> [acc.matches EXCEPT ![i] = HALF],
            count   |-> acc.count]
    ELSE IF guess_ch = chosen_ch
      THEN [matches |-> [acc.matches EXCEPT ![i] = FULL],
            count   |-> acc.count + 1]
    ELSE [matches |-> [acc.matches EXCEPT ![i] = NONE],
          count   |-> acc.count]

\* eval_step counting every letter found in the secret, not only the Full
eval_step_count_half(acc, i, guess_ch, chosen_ch, secret) ==
    IF guess_ch = chosen_ch
      THEN [matches |-> [acc.matches EXCEPT ![i] = FULL],
            count   |-> acc.count + 1]
    ELSE IF contains(secret, guess_ch)
      THEN [matches |-> [acc.matches EXCEPT ![i] = HALF],
            count   |-> acc.count + 1]
    ELSE [matches |-> [acc.matches EXCEPT ![i] = NONE],
          count   |-> acc.count]

\* the body of the for loop of evaluate_guess for the pair at index i
\* (1-based here), applied to the accumulator acc = [matches, count]
eval_step(acc, i, guess_ch, chosen_ch, secret) ==
    IF guess_ch = chosen_ch
      THEN [matches |-> [acc.matches EXCEPT ![i] = FULL],
            count   |-> acc.count + 1]
    ELSE IF contains(secret, guess_ch)
      THEN [matches |-> [acc.matches EXCEPT ![i] = HALF],
            count   |-> acc.count]
    ELSE [matches |-> [acc.matches EXCEPT ![i] = NONE],
          count   |-> acc.count]

RECURSIVE eval_loop_consuming(_, _, _, _)
\* the loop with the multiplicity-aware rule: a letter of the secret serves
\* one guess position only, earlier positions first
eval_loop_consuming(acc, i, g, secret) ==
    IF i > Min(Len(g), Len(secret)) THEN acc
    ELSE LET used  == Cardinality({j \in 1..(i - 1) : g[j] = g[i]})
             there == Cardinality({j \in DOMAIN secret : secret[j] = g[i]})
             m     == IF g[i] = secret[i] THEN FULL
                      ELSE IF there > used THEN HALF
                      ELSE NONE
         IN eval_loop_consuming(
                [matches |-> [acc.matches EXCEPT ![i] = m],
                 count   |-> IF m = FULL THEN acc.count + 1 ELSE acc.count],
                i + 1, g, secret)

RECURSIVE eval_loop(_, _, _, _)
\* the for loop over guess.chars().zip(chosen.chars()).enumerate(): zip ends
\* with the shorter of the two strings
eval_loop(acc, i, g, secret) ==
    IF i > Min(Len(g), Len(secret)) THEN acc
    ELSE eval_loop(eval_step(acc, i, g[i], secret[i], secret), i + 1, g, secret)

\* evaluate_guess without the increment of state.attempts
evaluate_guess_no_count(st_chosen, st_attempts, g) ==
    IF st_chosen = None
      THEN [ret |-> "None", matches |-> NoMatches, count |-> 0,
            attempts |-> st_attempts]
    ELSE LET r == eval_loop([matches |-> [i \in 1..5 |-> NONE], count |-> 0],
                            1, g, st_chosen)
         IN [ret |-> "Some", matches |-> r.matches, count |-> r.count,
             attempts |-> st_attempts]

\* evaluate_guess counting the attempt before it looks at state.chosen
evaluate_guess_counts_first(st_chosen, st_attempts, g) ==
    IF st_chosen = None
      THEN [ret |-> "None", matches |-> NoMatches, count |-> 0,
            attempts |-> st_attempts + 1]
    ELSE LET r == eval_loop([matches |-> [i \in 1..5 |-> NONE], count |-> 0],
                            1, g, st_chosen)
         IN [ret |-> "Some", matches |-> r.matches, count |-> r.count,
             attempts |-> st_attempts + 1]

\* evaluate_guess(state, guess): the returned Option and the new attempts
evaluate_guess(st_chosen, st_attempts, g) ==
    IF st_chosen = None
      THEN [ret |-> "None", matches |-> NoMatches, count |-> 0,
            attempts |-> st_attempts]
    ELSE LET r == eval_loop([matches |-> [i \in 1..5 |-> NONE], count |-> 0],
                            1, g, st_chosen)
         IN [ret |-> "Some", matches |-> r.matches, count |-> r.count,
             attempts |-> st_attempts + 1]

-----------------------------------------------------------------------------
(* The game: main *)

Init ==
    /\ content \in Contents \cup {ReadError}
    /\ words = <<>>
    /\ chosen = None
    /\ attempts = 0
    /\ max_attempts = MaxAttempts
    /\ pc = "start"
    /\ attempt_no = 0
    /\ input = NoLine
    /\ info = ""
    /\ guess = NoLine
    /\ ret = "-"
    /\ matches = NoMatches
    /\ match_count = 0
    /\ outcome = ""
    /\ revealed = None
    /\ prev_chosen = None
    /\ scored = 0

\* the check forgotten: an empty word list goes on to the loop
catalog_empty_unchecked(ws) == FALSE

\* words.len() == 0
catalog_empty(ws) == Len(ws) = 0

\* main up to the loop: arguments, reading and loading the word list
Startup ==
    /\ pc = "start"
    /\ \E argc \in 1..3 :
         IF argc > 2 \/ content = ReadError
           THEN /\ pc' = "exit1"
                /\ words' = words
         ELSE /\ words' = load_words(content)
              /\ pc' = IF catalog_empty(words') THEN "exit1" ELSE "loop"
    /\ UNCHANGED <<content, chosen, attempts, max_attempts, attempt_no, input,
                   info, guess, ret, matches, match_count, outcome, revealed,
                   prev_chosen, scored>>

\* the test dropped: a secret is drawn at every iteration
no_active_round_always(c) == TRUE

\* the test inverted: a secret is drawn only when one is active
no_active_round_inverted(c) == c # None

\* if let None = state.chosen
no_active_round(c) == c = None

\* top of the loop: draw a secret when none is active, then call input_guess
LoopTop ==
    /\ pc = "loop"
    /\ IF no_active_round(chosen)
         THEN /\ chosen' \in random_word(words)
              /\ attempts' = 0
              /\ scored' = 0
              /\ outcome' = ""
              /\ revealed' = None
         ELSE UNCHANGED <<chosen, attempts, scored, outcome, revealed>>
    /\ attempt_no' = attempts' + 1
    /\ guess' = NoLine
    /\ ret' = "-"
    /\ matches' = NoMatches
    /\ match_count' = 0
    /\ input' = NoLine
    /\ info' = ""
    /\ pc' = "input_guess"
    /\ UNCHANGED <<content, words, max_attempts, prev_chosen>>

\* the line of input_guess after trim().to_uppercase()
guess_canon(line) == to_uppercase(trim(line))

\* the two tests in the wrong order: the length first
guess_verdict_length_first(line) ==
    IF len(guess_canon(line)) # 5 THEN "length"
    ELSE IF ~all_alphabetic(guess_canon(line)) THEN "alphabets"
    ELSE "ok"

\* the branch input_guess takes on a line
guess_verdict(line) ==
    IF ~all_alphabetic(guess_canon(line)) THEN "alphabets"
    ELSE IF len(guess_canon(line)) # 5 THEN "length"
    ELSE "ok"

InfoMessage(v) ==
    IF v = "alphabets" THEN "INFO: Word should contain only alphabets"
    ELSE IF v = "length" THEN "INFO: Must provide word of length 5"
    ELSE ""

\* one iteration of input_guess that rejects the line and prompts again
InputGuessRejected ==
    /\ pc = "input_guess"
    /\ \E line \in GuessLines :
         /\ guess_verdict(line) # "ok"
         /\ input' = line
         /\ info' = InfoMessage(guess_verdict(line))
    /\ UNCHANGED <<content, words, chosen, attempts, max_attempts, pc,
                   attempt_no, guess, ret, matches, match_count, outcome,
                   revealed, prev_chosen, scored>>

\* the iteration of input_guess that returns the guess
InputGuessAccepted ==
    /\ pc = "input_guess"
    /\ \E line \in GuessLines :
         /\ guess_verdict(line) = "ok"
         /\ input' = line
         /\ guess' = to_uppercase(guess_canon(line))
    /\ info' = ""
    /\ pc' = "evaluate"
    /\ UNCHANGED <<content, words, chosen, attempts, max_attempts,
                   attempt_no, ret, matches, match_count, outcome,
                   revealed, prev_chosen, scored>>

\* read_line or flush fails: input_guess returns Err and main exits
InputGuessFailed ==
    /\ pc = "input_guess"
    /\ input' = ReadError
    /\ pc' = "exit1"
    /\ UNCHANGED <<content, words, chosen, attempts, max_attempts,
                   attempt_no, info, guess, ret, matches, match_count,
                   outcome, revealed, prev_chosen, scored>>

\* the call of evaluate_guess in main and the match on its result
Evaluate ==
    /\ pc = "evaluate"
    /\ LET r == evaluate_guess(chosen, attempts, guess)
       IN /\ ret' = r.ret
          /\ matches' = r.matches
          /\ match_count' = r.count
          /\ attempts' = r.attempts
          /\ scored' = IF r.ret = "Some" THEN scored + 1 ELSE scored
          /\ pc' = IF r.ret = "Some" THEN "decide" ELSE "exit1"
    /\ input' = NoLine
    /\ UNCHANGED <<content, words, chosen, max_attempts, attempt_no, info,
                   guess, outcome, revealed, prev_chosen>>

\* the test written with > : one attempt too many
attempts_exhausted_gt(a, m) == a > m

\* the test counting the upcoming attempt: one attempt too few
attempts_exhausted_early(a, m) == a + 1 >= m

\* attempts >= max_attempts
attempts_exhausted(a, m) == a >= m

\* the two tests in the wrong order: the attempt limit first
decide_outcome_limit_first(count, a, m) ==
    IF attempts_exhausted(a, m) THEN "LOST"
    ELSE IF count = 5 THEN "WON"
    ELSE "continue"

\* the order of the tests after the guess has been printed
decide_outcome(count, a, m) ==
    IF count = 5 THEN "WON"
    ELSE IF attempts_exhausted(a, m) THEN "LOST"
    ELSE "continue"

\* the if / else if / else after the guess has been printed
Decide ==
    /\ pc = "decide"
    /\ IF decide_outcome(match_count, attempts, max_attempts) = "WON"
         THEN /\ outcome' = "WON"
              /\ revealed' = revealed
              /\ pc' = "playagain"
       ELSE IF decide_outcome(match_count, attempts, max_attempts) = "LOST"
         THEN /\ outcome' = "LOST"
              /\ revealed' = chosen
              /\ pc' = IF chosen = None THEN "exit1" ELSE "playagain"
       ELSE /\ pc' = "loop"
            /\ UNCHANGED <<outcome, revealed>>
    /\ UNCHANGED <<content, words, chosen, attempts, max_attempts, attempt_no,
                   input, info, guess, ret, matches, match_count, prev_chosen,
                   scored>>

\* playagain comparing without regard to case
playagain_verdict_nocase(line) ==
    IF to_uppercase(trim(line)) = <<"Y">> THEN "true"
    ELSE IF to_uppercase(trim(line)) = <<"N">> THEN "false"
    ELSE "again"

\* what playagain does with a line: return true, return false, or loop
playagain_verdict(line) ==
    IF trim(line) = <<"y">> THEN "true"
    ELSE IF trim(line) = <<"N">> THEN "false"
    ELSE "again"

\* one iteration of playagain that does not return
PlayagainRepeated ==
    /\ pc = "playagain"
    /\ \E line \in AnswerLines :
         /\ playagain_verdict(line) = "again"
         /\ input' = line
    /\ UNCHANGED <<content, words, chosen, attempts, max_attempts, pc,
                   attempt_no, info, guess, ret, matches, match_count,
                   outcome, revealed, prev_chosen, scored>>

\* reset that forgets the secret / the counter
reset_chosen_kept(c) == c
reset_attempts_kept(a) == a

\* State::reset
reset_chosen(c) == None
reset_attempts(a) == 0

\* playagain returns true: state.reset() and the next iteration of the loop
PlayagainYes ==
    /\ pc = "playagain"
    /\ \E line \in AnswerLines :
         /\ playagain_verdict(line) = "true"
         /\ input' = line
    /\ chosen' = reset_chosen(chosen)
    /\ attempts' = reset_attempts(attempts)
    /\ prev_chosen' = chosen
    /\ pc' = "loop"
    /\ UNCHANGED <<content, words, max_attempts, attempt_no, info, guess, ret,
                   matches, match_count, outcome, revealed, scored>>

\* playagain returns false: break, main returns
PlayagainNo ==
    /\ pc = "playagain"
    /\ \E line \in AnswerLines :
         /\ playagain_verdict(line) = "false"
         /\ input' = line
    /\ pc' = "exit0"
    /\ UNCHANGED <<content, words, chosen, attempts, max_attempts,
                   attempt_no, info, guess, ret, matches, match_count,
                   outcome, revealed, prev_chosen, scored>>

\* read_line fails in playagain: main exits with status 1
PlayagainFailed ==
    /\ pc = "playagain"
    /\ input' = ReadError
    /\ pc' = "exit1"
    /\ UNCHANGED <<content, words, chosen, attempts, max_attempts,
                   attempt_no, info, guess, ret, matches, match_count,
                   outcome, revealed, prev_chosen, scored>>

Next ==
    \/ Startup
    \/ LoopTop
    \/ InputGuessRejected
    \/ InputGuessAccepted
    \/ InputGuessFailed
    \/ Evaluate
    \/ Decide
    \/ PlayagainRepeated
    \/ PlayagainYes
    \/ PlayagainNo
    \/ PlayagainFailed

Spec == Init /\ [][Next]_vars

-----------------------------------------------------------------------------
(* evaluate_guess on its own: any state, any guess *)

\* a 4-character word of 5 bytes, as load_words and input_guess let through
ShortWord == <<"U+00C9", "A", "B", "A">>

EvalWords == Words5 \cup ExampleWords \cup {ShortWord}

EvalInit ==
    /\ content = <<>>
    /\ words = <<>>
    /\ chosen \in EvalWords \cup {None}
    /\ attempts \in 0..MaxAttempts
    /\ max_attempts = MaxAttempts
    /\ pc = "eval_call"
    /\ attempt_no = 0
    /\ input = NoLine
    /\ info = ""
    /\ guess \in EvalWords
    /\ ret = "-"
    /\ matches = NoMatches
    /\ match_count = 0
    /\ outcome = ""
    /\ revealed = None
    /\ prev_chosen = chosen
    /\ scored = attempts

\* one call evaluate_guess(&mut state, &guess)
EvalCall ==
    /\ pc = "eval_call"
    /\ LET r == evaluate_guess(chosen, attempts, guess)
       IN /\ ret' = r.ret
          /\ matches' = r.matches
          /\ match_count' = r.count
          /\ attempts' = r.attempts
    /\ pc' = "eval_done"
    /\ UNCHANGED <<content, words, chosen, max_attempts, attempt_no, input,
                   info, guess, outcome, revealed, prev_chosen, scored>>

EvalNext == EvalCall

SpecEval == EvalInit /\ [][EvalNext]_vars

-----------------------------------------------------------------------------
(* State on its own: reset and the start of a round, from any state *)

StateInit ==
    /\ content \in Contents
    /\ words = load_words(content)
    /\ chosen \in Range(words) \cup {None}
    /\ max_attempts \in 1..MaxAttempts
    /\ attempts \in 0..max_attempts
    /\ pc = "state_any"
    /\ attempt_no = 0
    /\ input = NoLine
    /\ info = ""
    /\ guess = NoLine
    /\ ret = "-"
    /\ matches = NoMatches
    /\ match_count = 0
    /\ outcome = ""
    /\ revealed = None
    /\ prev_chosen = None
    /\ scored = attempts

\* state.reset()
StateReset ==
    /\ pc \in {"state_any", "state_begun"}
    /\ chosen' = reset_chosen(chosen)
    /\ attempts' = reset_attempts(attempts)
    /\ prev_chosen' = chosen
    /\ pc' = "state_reset"
    /\ UNCHANGED <<content, words, max_attempts, attempt_no, input, info,
                   guess, ret, matches, match_count, outcome, revealed,
                   scored>>

\* the `if let None = state.chosen` block at the top of the loop
StateBeginRound ==
    /\ pc \in {"state_any", "state_reset"}
    /\ IF no_active_round(chosen)
         THEN /\ chosen' \in random_word(words)
              /\ attempts' = 0
              /\ scored' = 0
         ELSE UNCHANGED <<chosen, attempts, scored>>
    /\ pc' = "state_begun"
    /\ UNCHANGED <<content, words, max_attempts, attempt_no, input, info,
                   guess, ret, matches, match_count, outcome, revealed,
                   prev_chosen>>

StateNext ==
    \/ StateReset
    \/ StateBeginRound

SpecState == StateInit /\ [][StateNext]_vars

-----------------------------------------------------------------------------
(* Properties of evaluate_guess (checked under SpecEval) *)

\* a canonical letter: alphabetic and its own uppercase form
Canonical(c) == is_alphabetic(c) /\ char_to_uppercase(c) = <<c>>

\* a Word of the data model: exactly 5 canonical letters
WellFormed(w) == w # None /\ Len(w) = 5 /\ \A i \in 1..5 : Canonical(w[i])

\* the classification of position i as the specification words it
Classify(secret, g, i) ==
    IF g[i] = secret[i] THEN FULL
    ELSE IF g[i] \in Range(secret) THEN HALF
    ELSE NONE

Evaluated == pc = "eval_done" /\ WellFormed(chosen) /\ WellFormed(guess)

\* C1: for every secret and guess of 5 canonical letters, evaluate classifies
\* each position on its own (Full when the letters agree, else Half when the
\* secret holds the letter anywhere, else None), and the full-match count is
\* the number of positions classified Full.
C1_Classification ==
    Evaluated =>
        /\ ret = "Some"
        /\ DOMAIN matches = 1..5
        /\ \A i \in 1..5 : matches[i] = Classify(chosen, guess, i)
        /\ match_count = Cardinality({i \in 1..5 : matches[i] = FULL})

C1_Witness ==
    /\ Evaluated
    /\ chosen = <<"A","B","C","D","E">>
    /\ guess = <<"E","D","C","B","A">>
    /\ matches = <<HALF, HALF, FULL, HALF, HALF>>
    /\ match_count = 1

\* C7: the containment check does not consume letters of the secret: every
\* guess position whose letter occurs in the secret and differs from the
\* secret's letter there is Half, whatever the other positions hold; for
\* secret ABCDE and guess AABCD position 0 is Full and position 1 is Half.
C7_NoConsumption ==
    Evaluated =>
        /\ \A i \in 1..5 :
             (guess[i] # chosen[i] /\ \E j \in 1..5 : chosen[j] = guess[i])
                 => matches[i] = HALF
        /\ (chosen = <<"A","B","C","D","E">> /\ guess = <<"A","A","B","C","D">>)
                 => (matches[1] = FULL /\ matches[2] = HALF)

C7_Witness ==
    /\ Evaluated
    /\ chosen = <<"A","B","C","D","E">>
    /\ guess = <<"A","A","B","C","D">>
    /\ matches[1] = FULL
    /\ matches[2] = HALF

\* C8: evaluating a well-formed secret against itself gives Full at every
\* position and a full-match count of 5.
C8_SelfMatch ==
    (Evaluated /\ guess = chosen) =>
        /\ \A i \in 1..5 : matches[i] = FULL
        /\ match_count = 5

C8_Witness ==
    /\ Evaluated
    /\ guess = chosen
    /\ chosen = <<"B","A","B","B","A">>
    /\ match_count = 5

\* C10: evaluate_guess called with no secret returns no scoring result and
\* leaves the state as it was: attempts is not incremented and the secret
\* stays absent.
C10_NoActiveSecret ==
    [][(pc = "eval_call" /\ chosen = None /\ pc' = "eval_done")
          => /\ ret' = "None"
             /\ matches' = NoMatches
             /\ attempts' = attempts
             /\ chosen' = None
             /\ max_attempts' = max_attempts]_vars

C10_Witness ==
    /\ pc = "eval_done"
    /\ chosen = None
    /\ ret = "None"
    /\ attempts = 3

-----------------------------------------------------------------------------
(* Properties of the game loop (checked under Spec) *)

\* C2: six non-winning scored guesses bring attempts to 6 and the round is
\* declared Lost at the 6th; no round is declared Lost after fewer than 6
\* scored guesses; the word revealed at a loss is the secret of that round.
C2_LostAtSixth ==
    /\ (outcome = "LOST" /\ pc # "loop") =>
           /\ attempts = 6
           /\ scored = 6
           /\ match_count # 5
           /\ chosen # None
           /\ revealed = chosen
    /\ (outcome = "LOST" /\ pc = "loop") => revealed = prev_chosen
    /\ (scored = 6 /\ ret = "Some" /\ match_count # 5 /\ pc # "decide") =>
           outcome = "LOST"

C2_Witness ==
    /\ pc = "playagain"
    /\ outcome = "LOST"
    /\ attempts = 6
    /\ revealed = <<"A","B","C","D","E">>

\* C3: a guess with 5 full matches ends the round as Won at once; after Won
\* or Lost no further guess is scored against the same secret, and the
\* play-again prompt is left only to the loop top with the state reset (no
\* active round) or to the end of the process.
C3_RoundEnds ==
    /\ [](outcome \in {"WON", "LOST"} =>
             /\ pc \in {"playagain", "loop", "exit0", "exit1"}
             /\ pc = "loop" => chosen = None)
    /\ [][(pc = "decide" /\ match_count = 5) =>
             (pc' = "playagain" /\ outcome' = "WON" /\ attempts' = attempts)]_vars
    /\ [][pc = "playagain" =>
             \/ pc' = "playagain" /\ UNCHANGED <<chosen, attempts, scored, outcome>>
             \/ pc' = "loop" /\ chosen' = None /\ attempts' = 0
             \/ pc' \in {"exit0", "exit1"}]_vars

C3_Witness ==
    /\ pc = "loop"
    /\ outcome = "WON"
    /\ scored < MaxAttempts
    /\ chosen = None
    /\ prev_chosen = guess

\* C4: attempts never exceeds max_attempts, which is 6, also after the guess
\* that ends a round.
C4_AttemptsBounded == attempts <= max_attempts /\ max_attempts = 6

C4_Witness ==
    /\ pc = "playagain"
    /\ attempts = max_attempts
    /\ outcome = "WON"

\* a line that fails validation as the interface describes it: not exactly
\* 5 characters after trimming, or not purely alphabetic
FailsValidation(line) == Len(trim(line)) # 5 \/ ~all_alphabetic(trim(line))

\* C5: a guess line that fails validation (not exactly 5 characters after
\* trimming, or not purely alphabetic) is prompted for again and consumes no
\* attempt: attempts, the secret, max_attempts and the ordinal shown stay.
C5_InvalidGuessReprompted ==
    [][(pc = "input_guess" /\ input' \notin {NoLine, ReadError}
            /\ FailsValidation(input'))
          => /\ pc' = "input_guess"
             /\ UNCHANGED <<attempts, chosen, max_attempts, attempt_no>>]_vars

\* a is what is left of the line once the whitespace around it is removed
IsAnswer(line, a) ==
    \E i, j \in 0..Len(line) :
        /\ i <= j
        /\ SubSeq(line, i + 1, j) = a
        /\ \A k \in 1..i : is_whitespace(line[k])
        /\ \A k \in (j + 1)..Len(line) : is_whitespace(line[k])

\* the line without its line terminator
chomp(line) ==
    IF line # <<>> /\ line[Len(line)] = "LF"
      THEN SubSeq(line, 1, Len(line) - 1) ELSE line

\* C9 as stated: the answer "y" continues, "N" stops, every other answer is
\* rejected and the prompt repeated with the round state unchanged; the
\* match is exact.
C9_ExactAnswer ==
    [][(pc = "playagain" /\ input' \notin {NoLine, ReadError}) =>
          /\ chomp(input') = <<"y">> =>
                 (pc' = "loop" /\ chosen' = None /\ attempts' = 0)
          /\ chomp(input') = <<"N">> => pc' = "exit0"
          /\ chomp(input') \notin {<<"y">>, <<"N">>} =>
                 (pc' = "playagain" /\ UNCHANGED <<chosen, attempts, max_attempts>>)]_vars

\* C9 (amended): the answer is the line read with the whitespace around it
\* removed; "y" continues (the state is reset and the next loop iteration
\* draws a secret), "N" stops, every other answer is rejected and the prompt
\* repeated with the round state unchanged; the match is case-sensitive.
C9_PlayAgain ==
    /\ [][(pc = "playagain" /\ input' \notin {NoLine, ReadError}) =>
             /\ IsAnswer(input', <<"y">>) =>
                    /\ pc' = "loop"
                    /\ chosen' = None
                    /\ attempts' = 0
                    /\ max_attempts' = max_attempts
             /\ IsAnswer(input', <<"N">>) =>
                    (pc' = "exit0" /\ UNCHANGED <<chosen, attempts, max_attempts>>)
             /\ (~IsAnswer(input', <<"y">>) /\ ~IsAnswer(input', <<"N">>)) =>
                    (pc' = "playagain" /\ UNCHANGED <<chosen, attempts, max_attempts>>)]_vars
    /\ [][(pc = "loop" /\ chosen = None) =>
             (pc' = "input_guess" /\ chosen' \in Range(words) /\ attempts' = 0)]_vars

C9_Witness ==
    /\ pc = "loop"
    /\ input = <<" ","y","LF">>
    /\ chosen = None
    /\ attempts = 0
    /\ prev_chosen # None

-----------------------------------------------------------------------------
(* Properties of State (checked under SpecState) *)

\* C6: reset sets the secret to absent and attempts to 0 and leaves
\* max_attempts as it was, from any state; the round begun after a reset can
\* have a secret other than the one of the round before.
C6_Reset ==
    [][(pc # "state_reset" /\ pc' = "state_reset") =>
          /\ chosen' = None
          /\ attempts' = 0
          /\ max_attempts' = max_attempts]_vars

C6_Witness ==
    /\ pc = "state_begun"
    /\ Len(words) > 1
    /\ prev_chosen # None
    /\ chosen # None
    /\ chosen # prev_chosen
    /\ attempts = 0
    /\ max_attempts = 3

-----------------------------------------------------------------------------
(* Further properties of the game loop (checked under Spec) *)

\* C11: the start of a round draws a secret and zeroes attempts only when no
\* secret is active; with a round active it changes neither the secret nor
\* attempts, so the secret stays the same between the guesses of a round.
C11_BeginRound ==
    /\ [][pc = "loop" =>
             IF chosen = None
               THEN chosen' \in Range(words) /\ attempts' = 0
               ELSE chosen' = chosen /\ attempts' = attempts]_vars
    /\ [][(chosen # None /\ pc \in {"loop", "input_guess", "evaluate", "decide"})
             => chosen' = chosen]_vars

C11_Witness ==
    /\ pc = "input_guess"
    /\ chosen # None
    /\ attempts = 2
    /\ scored = 2
    /\ attempt_no = 3

-----------------------------------------------------------------------------
(* load_words on its own: any word-list text *)

\* lines of a word-list text
MaxLines == 2

\* the lines the texts are made of
LoadLines ==
    { <<"H","E","L","L","O">>,
      <<"h","e","l","l","o">>,
      <<"W","O","R","L","D">>,
      <<"A","B">>,
      <<"1","2","3","4","5">>,
      <<>>,
      <<"H","E","L","L","O","CR">>,
      <<"U+00E9","a","b","a">>,
      <<"U+00E9","a","b","a","b">> }

RECURSIVE join_lines(_)
\* the text made of the lines ls, each ended by a line feed
join_lines(ls) ==
    IF ls = <<>> THEN <<>> ELSE LF(Head(ls)) \o join_lines(Tail(ls))

\* the text of the catalog-loading example
ExampleText ==
    join_lines(<< <<"H","E","L","L","O">>, <<"A","B">>, <<"W","O","R","L","D">>,
                  <<"1","2","3","4","5">>, <<"h","e","l","l","o">> >>)

LoadTexts ==
    {join_lines(ls) : ls \in UNION {[1..k -> LoadLines] : k \in 0..MaxLines}}
        \cup {ExampleText, <<"W","O","R","L","D">>}

LoadInit ==
    /\ content \in LoadTexts
    /\ words = <<>>
    /\ chosen = None
    /\ attempts = 0
    /\ max_attempts = MaxAttempts
    /\ pc = "load_call"
    /\ attempt_no = 0
    /\ input = NoLine
    /\ info = ""
    /\ guess = NoLine
    /\ ret = "-"
    /\ matches = NoMatches
    /\ match_count = 0
    /\ outcome = ""
    /\ revealed = None
    /\ prev_chosen = None
    /\ scored = 0

\* one call load_words(content)
LoadCall ==
    /\ pc = "load_call"
    /\ words' = load_words(content)
    /\ pc' = "load_done"
    /\ UNCHANGED <<content, chosen, attempts, max_attempts, attempt_no, input,
                   info, guess, ret, matches, match_count, outcome, revealed,
                   prev_chosen, scored>>

LoadNext == LoadCall

SpecLoad == LoadInit /\ [][LoadNext]_vars

\* the lines of a text
LinesOf(text) == Range(split(text, <<>>))

\* C12: load keeps exactly the lines that have exactly 5 characters, all
\* alphabetic, each converted to uppercase, and discards every other line;
\* the example text yields the catalog {HELLO, WORLD}.
C12_LoadKeeps ==
    pc = "load_done" =>
        /\ Range(words) =
             {to_uppercase(l) :
                 l \in {x \in LinesOf(content) : Len(x) = 5 /\ all_alphabetic(x)}}
        /\ content = ExampleText =>
             Range(words) = { <<"H","E","L","L","O">>, <<"W","O","R","L","D">> }

\* C13: no word occurs in the loaded catalog more than once.
C13_UniqueWords ==
    pc = "load_done" =>
        \A i, j \in DOMAIN words : i # j => words[i] # words[j]

-----------------------------------------------------------------------------
(* Properties of the start and of the loop (checked under Spec) *)

\* the lines of the word list that load_words keeps
ValidLines(text) == {l \in LinesOf(text) : load_filter(l)}

\* C14: a word list without a valid word ends the program with status 1
\* before any round: no secret is drawn from an empty catalog and no guess is
\* requested.
C14_EmptyCatalog ==
    /\ (pc # "start" /\ content # ReadError /\ ValidLines(content) = {}) =>
           /\ pc = "exit1"
           /\ words = <<>>
           /\ chosen = None
           /\ attempt_no = 0
           /\ input = NoLine
           /\ guess = NoLine
    /\ pc \in {"loop", "input_guess", "evaluate", "decide", "playagain", "exit0"}
           => Len(words) > 0

C14_Witness ==
    /\ pc = "exit1"
    /\ content = LF(<<"A","B">>) \o LF(<<"1","2","3","4","5">>)
    /\ words = <<>>
    /\ chosen = None
    /\ attempt_no = 0

AlphabetsMessage == "INFO: Word should contain only alphabets"
LengthMessage == "INFO: Must provide word of length 5"

\* only ASCII characters, for which bytes and characters count the same
IsAscii(s) == \A i \in DOMAIN s : s[i] \notin NonAsciiLetters

C16_OutcomeOrder ==
    /\ [][pc = "decide" =>
             /\ match_count = 5 =>
                    (outcome' = "WON" /\ pc' = "playagain" /\ revealed' = revealed)
             /\ (match_count # 5 /\ attempts >= max_attempts) =>
                    (outcome' = "LOST" /\ pc' = "playagain" /\ revealed' = chosen)
             /\ (match_count # 5 /\ attempts < max_attempts) =>
                    (pc' = "loop" /\ UNCHANGED <<outcome, revealed, chosen, attempts>>)]_vars
    /\ [](outcome = "WON" => revealed = None)

C16_Witness ==
    /\ pc = "playagain"
    /\ outcome = "WON"
    /\ attempts = 6
    /\ scored = 6
    /\ guess = chosen
    /\ revealed = None

\* C17: every word that reaches the evaluator has exactly 5 alphabetic
\* characters in canonical case: every member of the catalog, hence every
\* secret, and every guess accepted by input_guess.
C17_WordsWellFormed ==
    /\ \A i \in DOMAIN words : WellFormed(words[i])
    /\ chosen # None => WellFormed(chosen)
    /\ pc \in {"evaluate", "decide"} => WellFormed(guess)

\* C18: a call of evaluate_guess that returns a result changes attempts by
\* exactly +1 and nothing else of the state; attempts never decreases within
\* a round and equals the number of guesses scored since the round began.
C18_AttemptCounting ==
    /\ [][(pc = "evaluate" /\ ret' = "Some") =>
             /\ attempts' = attempts + 1
             /\ chosen' = chosen
             /\ max_attempts' = max_attempts]_vars
    /\ [][(chosen # None /\ chosen' = chosen) => attempts' >= attempts]_vars
    /\ [](chosen # None => attempts = scored)

C18_Witness ==
    /\ pc = "decide"
    /\ ret = "Some"
    /\ attempts = 3
    /\ scored = 3

\* C19: in the game loop evaluate_guess is never called without a secret: a
\* secret of the non-empty catalog is assigned before the first guess of a
\* round and is cleared only by reset after Won or Lost, so neither
\* "guessed word is None" nor "No word is chosen" is ever reached.
C19_SecretAssigned ==
    /\ [](pc \in {"input_guess", "evaluate", "decide", "playagain"} =>
             (chosen # None /\ chosen \in Range(words)))
    /\ [](ret # "None")
    /\ []((outcome = "LOST" /\ pc # "loop") => revealed # None)
    /\ [][(chosen # None /\ chosen' = None) =>
             (pc = "playagain" /\ outcome \in {"WON", "LOST"})]_vars

C19_Witness ==
    /\ pc = "evaluate"
    /\ chosen # None
    /\ prev_chosen # None
    /\ scored = 0
    /\ guess # NoLine

-----------------------------------------------------------------------------
(* Termination of a round *)

\* the program's own steps are taken when they can be: main runs on
SpecLive ==
    /\ Init
    /\ [][Next]_vars
    /\ WF_vars(LoopTop)
    /\ WF_vars(Evaluate)
    /\ WF_vars(Decide)

RoundInProgress ==
    /\ chosen # None
    /\ pc \in {"loop", "input_guess", "evaluate", "decide"}

\* C20: a round in progress eventually ends as Won or Lost, unless no valid
\* guess is supplied to a request (the read fails, or the game waits at the
\* prompt for ever); and no round scores more than 6 guesses.
C20_RoundTerminates ==
    /\ RoundInProgress ~>
           \/ outcome \in {"WON", "LOST"}
           \/ input = ReadError
           \/ <>[](pc = "input_guess")
    /\ [](scored <= 6)

C20_Witness ==
    /\ pc = "playagain"
    /\ outcome = "LOST"
    /\ scored = 6
    /\ prev_chosen # None
    /\ chosen = <<"U+00C9", "A", "B", "A">>

====
